---- MODULE Spec2Model ----
(***************************************************************************)
(* Model of srt_pipeline.py: SDH subtitle cleaning (clean_line and its     *)
(* helpers), the forced-cue classifier, the SRT segmenter/formatter and    *)
(* the three pipeline modes of main().                                     *)
(*                                                                         *)
(* A text line is a sequence of characters; a character is a one-character *)
(* string, or the code point name ("U266A" is the eighth note) for the     *)
(* characters outside ASCII.  Python's None is the value None below.       *)
(***************************************************************************)
EXTENDS Integers, Sequences, FiniteSets, TLC

VARIABLES input, cfg, cleaned, lines, mode, renumber, blocks, result_blocks,
          output_lines, pc

vars == <<input, cfg, cleaned, lines, mode, renumber, blocks, result_blocks,
          output_lines, pc>>

-----------------------------------------------------------------------------
(* Characters and the classes the regular expressions and str methods use. *)

None == <<"None">>

UpperAscii == {"A", "B", "C", "D", "E", "F", "G", "H", "I", "J", "K", "L", "M",
               "N", "O", "P", "Q", "R", "S", "T", "U", "V", "W", "X", "Y", "Z"}
LowerAscii == {"a", "b", "c", "d", "e", "f", "g", "h", "i", "j", "k", "l", "m",
               "n", "o", "p", "q", "r", "s", "t", "u", "v", "w", "x", "y", "z"}
\* the accented capitals A E I O U N U (acute, tilde, diaeresis) and their small forms
UpperAccented == {"U00C1", "U00C9", "U00CD", "U00D3", "U00DA", "U00D1", "U00DC"}
LowerAccented == {"U00E1", "U00E9", "U00ED", "U00F3", "U00FA", "U00F1", "U00FC"}
Digits == {"0", "1", "2", "3", "4", "5", "6", "7", "8", "9"}
Whitespace == {" ", "\t"}

MUSIC_SYMBOLS == {"U266A", "U266B", "U266C", "U2669", "U266D", "U266F"}

isspace(c) == c \in Whitespace
isalpha(c) == c \in UpperAscii \cup LowerAscii \cup UpperAccented \cup LowerAccented
isupper(c) == c \in UpperAscii \cup UpperAccented
\* \w of the re module: alphanumerics and the underscore
isword(c) == isalpha(c) \/ c \in Digits \/ c = "_"

LowerSeq == <<"a", "b", "c", "d", "e", "f", "g", "h", "i", "j", "k", "l", "m",
              "n", "o", "p", "q", "r", "s", "t", "u", "v", "w", "x", "y", "z",
              "U00E1", "U00E9", "U00ED", "U00F3", "U00FA", "U00F1", "U00FC">>
UpperSeq == <<"A", "B", "C", "D", "E", "F", "G", "H", "I", "J", "K", "L", "M",
              "N", "O", "P", "Q", "R", "S", "T", "U", "V", "W", "X", "Y", "Z",
              "U00C1", "U00C9", "U00CD", "U00D3", "U00DA", "U00D1", "U00DC">>

upper_char(c) ==
    IF \E i \in 1..Len(LowerSeq) : LowerSeq[i] = c
    THEN UpperSeq[CHOOSE i \in 1..Len(LowerSeq) : LowerSeq[i] = c]
    ELSE c

upper(s) == [i \in 1..Len(s) |-> upper_char(s[i])]

-----------------------------------------------------------------------------
(* str methods.                                                            *)

RECURSIVE lstrip(_)
lstrip(s) == IF s # <<>> /\ isspace(Head(s)) THEN lstrip(Tail(s)) ELSE s

RECURSIVE rstrip(_)
rstrip(s) ==
    IF s # <<>> /\ isspace(s[Len(s)]) THEN rstrip(SubSeq(s, 1, Len(s) - 1)) ELSE s

strip(s) == rstrip(lstrip(s))

\* TRUE iff old occurs in s at position i
OccursAt(s, i, old) ==
    /\ i + Len(old) - 1 <= Len(s)
    /\ \A k \in 1..Len(old) : s[i + k - 1] = old[k]

RECURSIVE ReplaceFrom(_, _, _, _, _)
ReplaceFrom(s, i, old, new, out) ==
    IF i > Len(s) THEN out
    ELSE IF OccursAt(s, i, old)
         THEN ReplaceFrom(s, i + Len(old), old, new, out \o new)
         ELSE ReplaceFrom(s, i + 1, old, new, Append(out, s[i]))

\* str.replace(old, new), old not empty: leftmost occurrences, not overlapping
replace(s, old, new) == ReplaceFrom(s, 1, old, new, <<>>)

DigitSeq == <<"0", "1", "2", "3", "4", "5", "6", "7", "8", "9">>

RECURSIVE str(_)
str(n) == IF n < 10 THEN <<DigitSeq[n + 1]>>
          ELSE Append(str(n \div 10), DigitSeq[(n % 10) + 1])

-----------------------------------------------------------------------------
(* Regular expressions: XXX_RE(s, i) is the length of the match of the     *)
(* pattern that starts at position i of s, 0 when there is none.           *)

\* first position after i that holds c, 0 when there is none
FirstAfter(s, i, c) ==
    IF \E j \in (i + 1)..Len(s) : s[j] = c
    THEN CHOOSE j \in (i + 1)..Len(s) :
             s[j] = c /\ \A k \in (i + 1)..(j - 1) : s[k] # c
    ELSE 0

\* OPEN [^CLOSE]* CLOSE
Delimited(s, i, open, close) ==
    IF s[i] = open /\ FirstAfter(s, i, close) > 0
    THEN FirstAfter(s, i, close) - i + 1
    ELSE 0

RECURSIVE SpaceRun(_, _)
SpaceRun(s, i) == IF i <= Len(s) /\ isspace(s[i]) THEN 1 + SpaceRun(s, i + 1) ELSE 0

\* BR_TAG_RE: <br\s*/?> with IGNORECASE
BR_TAG_RE(s, i) ==
    IF i + 2 <= Len(s) /\ s[i] = "<" /\ s[i + 1] \in {"b", "B"} /\ s[i + 2] \in {"r", "R"}
    THEN LET j == i + 3 + SpaceRun(s, i + 3)
             k == IF j <= Len(s) /\ s[j] = "/" THEN j + 1 ELSE j
         IN  IF k <= Len(s) /\ s[k] = ">" THEN k - i + 1 ELSE 0
    ELSE 0

\* HTML_TAG_RE: <[^>]+>
HTML_TAG_RE(s, i) ==
    IF s[i] = "<" /\ FirstAfter(s, i, ">") > i + 1
    THEN FirstAfter(s, i, ">") - i + 1
    ELSE 0

\* ASS_OVERRIDE_RE: \{[^}]*\}
ASS_OVERRIDE_RE(s, i) == Delimited(s, i, "{", "}")

\* ASS_NEWLINE_RE: \\[Nn]
ASS_NEWLINE_RE(s, i) ==
    IF i + 1 <= Len(s) /\ s[i] = "\\" /\ s[i + 1] \in {"N", "n"} THEN 2 ELSE 0

\* \[[^\]]*\]
SQUARE_RE(s, i) == Delimited(s, i, "[", "]")

\* \([^)]*\)
PAREN_RE(s, i) == Delimited(s, i, "(", ")")

\* \s+
SPACES_RE(s, i) == SpaceRun(s, i)

\* the length of the match of the pattern named re at position i of s
MatchAt(re, s, i) ==
    CASE re = "BR_TAG_RE" -> BR_TAG_RE(s, i)
      [] re = "HTML_TAG_RE" -> HTML_TAG_RE(s, i)
      [] re = "ASS_OVERRIDE_RE" -> ASS_OVERRIDE_RE(s, i)
      [] re = "ASS_NEWLINE_RE" -> ASS_NEWLINE_RE(s, i)
      [] re = "SQUARE_RE" -> SQUARE_RE(s, i)
      [] re = "PAREN_RE" -> PAREN_RE(s, i)
      [] re = "SPACES_RE" -> SPACES_RE(s, i)

RECURSIVE SubFrom(_, _, _, _, _)
SubFrom(re, repl, s, i, out) ==
    IF i > Len(s) THEN out
    ELSE IF MatchAt(re, s, i) > 0
         THEN SubFrom(re, repl, s, i + MatchAt(re, s, i), out \o repl)
         ELSE SubFrom(re, repl, s, i + 1, Append(out, s[i]))

\* re.sub(re, repl, s) with a constant replacement: leftmost matches, not overlapping
re_sub(re, repl, s) == SubFrom(re, repl, s, 1, <<>>)

\* re.fullmatch(re, s) for the delimited patterns, whose match at a position is unique
re_fullmatch(re, s) == s # <<>> /\ MatchAt(re, s, 1) = Len(s)

-----------------------------------------------------------------------------
(* SDHConfig and the line cleaner.                                         *)

SDHConfig == [remove_between_square : BOOLEAN,
              remove_between_paren : BOOLEAN,
              between_only_if_separate_line : BOOLEAN,
              remove_text_before_colon : BOOLEAN,
              colon_only_if_uppercase : BOOLEAN,
              remove_if_only_music_symbols : BOOLEAN]

DefaultConfig == [remove_between_square |-> TRUE,
                  remove_between_paren |-> TRUE,
                  between_only_if_separate_line |-> FALSE,
                  remove_text_before_colon |-> TRUE,
                  colon_only_if_uppercase |-> TRUE,
                  remove_if_only_music_symbols |-> TRUE]

PRESETS == [aggressive |-> DefaultConfig,
            netflix |-> DefaultConfig,
            conservative |-> [DefaultConfig EXCEPT !.between_only_if_separate_line = TRUE]]

\* the character class of SPEAKER_RE: [A-ZÁ...0-9 '"&().-]
SpeakerChar(c) ==
    c \in UpperAscii \cup UpperAccented \cup Digits \cup {" ", "'", "\"", "&", "(", ")", ".", "-"}

\* SPEAKER_RE.match(line): ^\s*([class]{2,}):\s*(.+)$
\* The class and \s both exclude the colon, so the colon matched is the first one;
\* \s* is greedy and gives back blanks (which are in the class) only when it must.
SpeakerStarts(line) ==
    LET p == FirstAfter(line, 0, ":")
        w == SpaceRun(line, 1)
    IN  IF p = 0 \/ p = Len(line) THEN {}
        ELSE {k \in 0..w : /\ p - 1 - k >= 2
                           /\ \A i \in (k + 1)..(p - 1) : SpeakerChar(line[i])}

SPEAKER_RE(line) ==
    LET p == FirstAfter(line, 0, ":")
        ks == SpeakerStarts(line)
        k == CHOOSE x \in ks : \A y \in ks : y <= x
        after == SubSeq(line, p + 1, Len(line))
    IN  IF ks = {} THEN [matched |-> FALSE, speaker |-> <<>>, rest |-> <<>>]
        ELSE [matched |-> TRUE,
              speaker |-> SubSeq(line, k + 1, p - 1),
              rest |-> IF lstrip(after) = <<>> THEN <<line[Len(line)]>>
                       ELSE lstrip(after)]

_strip_speaker(line, c) ==
    IF ~c.remove_text_before_colon THEN line
    ELSE LET match == SPEAKER_RE(line)
         IN  IF ~match.matched THEN line
             ELSE IF c.colon_only_if_uppercase /\ match.speaker # upper(match.speaker)
                  THEN line
                  ELSE match.rest

_only_music(line) ==
    LET stripped == strip(line)
    IN  IF stripped = <<>> THEN FALSE
        ELSE \A i \in 1..Len(stripped) : stripped[i] \in MUSIC_SYMBOLS

_remove_inline_brackets(line, c) ==
    LET l1 == IF c.remove_between_square /\ ~c.between_only_if_separate_line
              THEN re_sub("SQUARE_RE", <<>>, line) ELSE line
    IN  IF c.remove_between_paren /\ ~c.between_only_if_separate_line
        THEN re_sub("PAREN_RE", <<>>, l1) ELSE l1

\* _should_drop_line_for_brackets without the strip() of the line
_should_drop_line_for_brackets_Unstripped(line, c) ==
    IF ~c.between_only_if_separate_line THEN FALSE
    ELSE IF c.remove_between_square /\ re_fullmatch("SQUARE_RE", line) THEN TRUE
    ELSE IF c.remove_between_paren /\ re_fullmatch("PAREN_RE", line) THEN TRUE
    ELSE FALSE

_should_drop_line_for_brackets(line, c) ==
    IF ~c.between_only_if_separate_line THEN FALSE
    ELSE LET stripped == strip(line)
         IN  IF c.remove_between_square /\ re_fullmatch("SQUARE_RE", stripped) THEN TRUE
             ELSE IF c.remove_between_paren /\ re_fullmatch("PAREN_RE", stripped) THEN TRUE
             ELSE FALSE

\* f"__TAG_{idx}__"
Placeholder(idx) == <<"_", "_", "T", "A", "G", "_">> \o str(idx) \o <<"_", "_">>

\* re.sub(_store, line): every match is appended to placeholders and replaced
\* by the placeholder that names its position in the list
RECURSIVE StoreFrom(_, _, _, _, _)
StoreFrom(re, s, i, out, placeholders) ==
    IF i > Len(s) THEN [line |-> out, placeholders |-> placeholders]
    ELSE IF MatchAt(re, s, i) > 0
         THEN StoreFrom(re, s, i + MatchAt(re, s, i),
                        out \o Placeholder(Len(placeholders)),
                        Append(placeholders, SubSeq(s, i, i + MatchAt(re, s, i) - 1)))
         ELSE StoreFrom(re, s, i + 1, Append(out, s[i]), placeholders)

_store(re, st) == StoreFrom(re, st.line, 1, <<>>, st.placeholders)

\* the four protecting substitutions of clean_line, in the order of the code
Shield(line) ==
    _store("ASS_NEWLINE_RE",
        _store("ASS_OVERRIDE_RE",
            _store("HTML_TAG_RE",
                _store("BR_TAG_RE", [line |-> line, placeholders |-> <<>>]))))

\* the restoring loop of clean_line, from placeholder idx (1-based here) on
RECURSIVE Restore(_, _, _)
Restore(line, placeholders, idx) ==
    IF idx > Len(placeholders) THEN line
    ELSE Restore(replace(line, Placeholder(idx - 1), placeholders[idx]),
                 placeholders, idx + 1)

\* the rules between protecting and restoring
Rules(line, c) ==
    strip(re_sub("SPACES_RE", <<" ">>, _strip_speaker(_remove_inline_brackets(line, c), c)))

clean_line(line, c) ==
    IF _should_drop_line_for_brackets(line, c) THEN None
    ELSE LET st == Shield(line)
             l == Rules(st.line, c)
         IN  IF c.remove_if_only_music_symbols /\ _only_music(l) THEN None
             ELSE Restore(l, st.placeholders, 1)

\* the truth value of an object: `if result:` keeps neither None nor ""
Truthy(x) == x # None /\ x # <<>>

-----------------------------------------------------------------------------
(* The forced-cue classifier.                                              *)

\* the character class of FORCED_RE: [A-ZÁ...\s\d\W]
ForcedChar(c) ==
    c \in UpperAscii \cup UpperAccented \/ isspace(c) \/ c \in Digits \/ ~isword(c)

\* FORCED_RE.fullmatch(text): ^[class]+$ | ^\{\\an8\}
FORCED_RE(text) ==
    \/ text # <<>> /\ \A i \in 1..Len(text) : ForcedChar(text[i])
    \/ text = <<"{", "\\", "a", "n", "8", "}">>

is_all_caps_cue(l) ==
    LET text == strip(l)
        letters == SelectSeq(text, isalpha)
    IN  IF text = <<>> THEN FALSE
        ELSE IF ~FORCED_RE(text) THEN FALSE
        ELSE IF Len(letters) < 2 THEN FALSE
        ELSE \A i \in 1..Len(letters) : isupper(letters[i])

_text_without_overrides(text) == re_sub("ASS_OVERRIDE_RE", <<>>, text)

-----------------------------------------------------------------------------
(* SRT blocks: the segmenter, the formatter and the two block filters.     *)

SRTBlock(index, timing, texts) == [index |-> index, timing |-> timing, texts |-> texts]

\* str.rstrip("\n")
RECURSIVE rstrip_newline(_)
rstrip_newline(s) ==
    IF s # <<>> /\ s[Len(s)] = "\n" THEN rstrip_newline(SubSeq(s, 1, Len(s) - 1)) ELSE s

_make_block(buffer) ==
    IF Len(buffer) < 2 THEN SRTBlock(<<>>, <<>>, buffer)
    ELSE SRTBlock(buffer[1], buffer[2], SubSeq(buffer, 3, Len(buffer)))

RECURSIVE ParseFrom(_, _, _, _)
ParseFrom(ls, i, buffer, acc) ==
    IF i > Len(ls)
    THEN IF buffer # <<>> THEN Append(acc, _make_block(buffer)) ELSE acc
    ELSE IF strip(ls[i]) = <<>>
         THEN IF buffer # <<>>
              THEN ParseFrom(ls, i + 1, <<>>, Append(acc, _make_block(buffer)))
              ELSE ParseFrom(ls, i + 1, buffer, acc)
         ELSE ParseFrom(ls, i + 1, Append(buffer, rstrip_newline(ls[i])), acc)

parse_srt(ls) == ParseFrom(ls, 1, <<>>, <<>>)

\* FormatFrom with the counter advanced for the skipped blocks too
RECURSIVE FormatFrom_CountsSkipped(_, _, _, _, _)
FormatFrom_CountsSkipped(bs, i, renum, counter, output) ==
    IF i > Len(bs) THEN output
    ELSE IF bs[i].texts = <<>>
         THEN FormatFrom_CountsSkipped(bs, i + 1, renum, counter + 1, output)
    ELSE FormatFrom_CountsSkipped(bs, i + 1, renum, counter + 1,
             output
             \o << IF renum THEN str(counter)
                   ELSE IF bs[i].index # <<>> THEN bs[i].index ELSE str(counter) >>
             \o << bs[i].timing >>
             \o bs[i].texts
             \o << <<>> >>)

\* the loop of format_srt from block i on
RECURSIVE FormatFrom(_, _, _, _, _)
FormatFrom(bs, i, renum, counter, output) ==
    IF i > Len(bs) THEN output
    ELSE IF bs[i].texts = <<>> THEN FormatFrom(bs, i + 1, renum, counter, output)
    ELSE FormatFrom(bs, i + 1, renum, counter + 1,
             output
             \o << IF renum THEN str(counter)
                   ELSE IF bs[i].index # <<>> THEN bs[i].index ELSE str(counter) >>
             \o << bs[i].timing >>
             \o bs[i].texts
             \o << <<>> >>)

format_srt(bs, renum) == FormatFrom(bs, 1, renum, 1, <<>>)

\* the texts of one block that clean_line keeps
RECURSIVE CleanTexts(_, _)
CleanTexts(texts, c) ==
    IF texts = <<>> THEN <<>>
    ELSE LET result == clean_line(Head(texts), c)
         IN  IF Truthy(result) THEN <<result>> \o CleanTexts(Tail(texts), c)
             ELSE CleanTexts(Tail(texts), c)

RECURSIVE sdh_to_full_blocks(_, _)
sdh_to_full_blocks(bs, c) ==
    IF bs = <<>> THEN <<>>
    ELSE LET new_texts == CleanTexts(Head(bs).texts, c)
         IN  IF new_texts # <<>>
             THEN <<SRTBlock(Head(bs).index, Head(bs).timing, new_texts)>>
                  \o sdh_to_full_blocks(Tail(bs), c)
             ELSE sdh_to_full_blocks(Tail(bs), c)

\* ForcedBlock with the checker applied to the text lines as they are
ForcedBlock_KeepsOverrides(block) ==
    /\ block.texts # <<>>
    /\ \A i \in 1..Len(block.texts) : is_all_caps_cue(block.texts[i])

\* the test of full_to_forced_blocks on one block, with the default checker
ForcedBlock(block) ==
    /\ block.texts # <<>>
    /\ \A i \in 1..Len(block.texts) :
           is_all_caps_cue(_text_without_overrides(block.texts[i]))

full_to_forced_blocks(bs) == SelectSeq(bs, ForcedBlock)

\* sdh_to_full_lines: the line-list form of the cleaner
RECURSIVE sdh_to_full_lines(_, _)
sdh_to_full_lines(ls, c) ==
    IF ls = <<>> THEN <<>>
    ELSE LET result == clean_line(rstrip_newline(Head(ls)), c)
         IN  IF Truthy(result) THEN <<result>> \o sdh_to_full_lines(Tail(ls), c)
             ELSE sdh_to_full_lines(Tail(ls), c)

\* the mode dispatch of main()
RunMode(m, bs, c) ==
    CASE m = "sdh_to_full" -> sdh_to_full_blocks(bs, c)
      [] m = "full_to_forced" -> full_to_forced_blocks(bs)
      [] m = "sdh_to_forced" -> full_to_forced_blocks(sdh_to_full_blocks(bs, c))

-----------------------------------------------------------------------------
(* The callers.  A line handed to clean_line is typed piece by piece; the  *)
(* pieces are the tags, brackets, prefixes and symbols the rules react to. *)

RECURSIVE Concat(_)
Concat(ps) == IF ps = <<>> THEN <<>> ELSE Head(ps) \o Concat(Tail(ps))

\* the line typed so far
Line == Concat(input)

TagI == <<"<", "i", ">">>
Note == <<"U266A">>
Timing == <<"0", "1", " ", "-", "-", ">", " ", "0", "2">>

MaxPieces == 3

CleanPieces ==
    { <<"[">>, <<"]">>, <<"{">>, <<"}">>, TagI, <<"\\", "N">>,
      <<"A", "B", ":", " ">>, <<"A", "b", ":", " ">>, <<"x">>, <<" ">>,
      Note, Placeholder(0) }

\* one entry whose only text line is l
OneEntry(l) == <<SRTBlock(<<"1">>, Timing, <<l>>)>>

InitClean ==
    /\ input = <<>>
    /\ cfg = DefaultConfig
    /\ cleaned = None
    /\ lines = <<>>
    /\ mode = "sdh_to_full"
    /\ renumber = TRUE
    /\ blocks = <<>>
    /\ result_blocks = <<>>
    /\ output_lines = <<>>
    /\ pc = "input"

TypePiece(p) ==
    /\ pc = "input"
    /\ Len(input) < MaxPieces
    /\ input' = Append(input, p)
    /\ UNCHANGED <<cfg, cleaned, lines, mode, renumber, blocks, result_blocks,
                   output_lines, pc>>

\* a call clean_line(Line, c)
CleanLine(c) ==
    /\ pc = "input"
    /\ cfg' = c
    /\ cleaned' = clean_line(Line, c)
    /\ pc' = "cleaned"
    /\ UNCHANGED <<input, lines, mode, renumber, blocks, result_blocks, output_lines>>

\* a second call, on the line the first call returned, with the same configuration
CleanAgain ==
    /\ pc = "cleaned"
    /\ Truthy(cleaned)
    /\ input' = <<cleaned>>
    /\ cleaned' = clean_line(cleaned, cfg)
    /\ pc' = "again"
    /\ UNCHANGED <<cfg, lines, mode, renumber, blocks, result_blocks, output_lines>>

NextClean ==
    \/ \E p \in CleanPieces : TypePiece(p)
    \/ \E c \in SDHConfig : CleanLine(c)
    \/ CleanAgain

SpecClean == InitClean /\ [][NextClean]_vars

-----------------------------------------------------------------------------
(* Properties of clean_line, under SpecClean.                              *)

\* the spans of a raw line that the protecting patterns match, scanning from the
\* left and trying the patterns in the order of the code, in order of position
RECURSIVE SpansFrom(_, _)
SpansFrom(s, i) ==
    IF i > Len(s) THEN <<>>
    ELSE LET n == IF BR_TAG_RE(s, i) > 0 THEN BR_TAG_RE(s, i)
                  ELSE IF HTML_TAG_RE(s, i) > 0 THEN HTML_TAG_RE(s, i)
                  ELSE IF ASS_OVERRIDE_RE(s, i) > 0 THEN ASS_OVERRIDE_RE(s, i)
                  ELSE ASS_NEWLINE_RE(s, i)
         IN  IF n > 0 THEN <<SubSeq(s, i, i + n - 1)>> \o SpansFrom(s, i + n)
             ELSE SpansFrom(s, i + 1)

ShieldedSpans(s) == SpansFrom(s, 1)

\* the spans occur in s from position i on, one after the other
RECURSIVE OccurInOrder(_, _, _)
OccurInOrder(spans, s, i) ==
    IF spans = <<>> THEN TRUE
    ELSE IF i + Len(Head(spans)) - 1 > Len(s) THEN FALSE
    ELSE IF OccursAt(s, i, Head(spans))
         THEN OccurInOrder(Tail(spans), s, i + Len(Head(spans)))
         ELSE OccurInOrder(spans, s, i + 1)

\* C1: a line that clean_line does not drop holds every shielded span of its
\* input verbatim, and the spans in the order they have in the input.
C1_ShieldRoundTrip ==
    (pc = "cleaned" /\ cleaned # None) => OccurInOrder(ShieldedSpans(Line), cleaned, 1)

\* C2: cleaning a line that clean_line kept once more, with the same
\* configuration, returns it unchanged.
C2_Idempotent == pc = "again" => cleaned = Line

\* whitespace normalisation as the claims state it
Normalized(s) == strip(re_sub("SPACES_RE", <<" ">>, s))

\* music symbols separated by single blanks, at least one symbol
MusicOnly(s) ==
    /\ s # <<>>
    /\ \A i \in 1..Len(s) : s[i] \in MUSIC_SYMBOLS \cup {" "}

\* C5: with remove_if_only_music_symbols a line that is, once normalised, only
\* music symbols separated by single blanks is dropped; without the flag it is kept.
C5_MusicOnlyDrop ==
    (pc = "cleaned" /\ MusicOnly(Normalized(Line)))
        => (cleaned = None <=> cfg.remove_if_only_music_symbols)

\* the name characters of the claim: letters of either case, digits, blanks,
\* quotes, ampersand, parentheses, hyphen
NameChar(c) == isalpha(c) \/ c \in Digits \cup {" ", "'", "\"", "&", "(", ")", "-"}

\* l is name characters, at least two, then a colon, then at least one character
HasNamePrefix(l) ==
    LET p == FirstAfter(l, 0, ":")
    IN  /\ p >= 3
        /\ p < Len(l)
        /\ \A i \in 1..(p - 1) : NameChar(l[i])

AfterColon(l) == SubSeq(l, FirstAfter(l, 0, ":") + 1, Len(l))

\* letters and blanks only, a letter among them: no other rule reacts to it
Plain(l) ==
    /\ \A i \in 1..Len(l) : isalpha(l[i]) \/ l[i] = " "
    /\ \E i \in 1..Len(l) : isalpha(l[i])

\* C7: with remove_text_before_colon and without colon_only_if_uppercase, a line
\* with a name prefix (of either case) is replaced by the text after the colon.
C7_SpeakerPrefixRemoved ==
    (/\ pc = "cleaned"
     /\ cfg.remove_text_before_colon
     /\ ~cfg.colon_only_if_uppercase
     /\ HasNamePrefix(Line)
     /\ Plain(AfterColon(Line)))
        => cleaned = Normalized(AfterColon(Line))

AllOff == [remove_between_square |-> FALSE,
           remove_between_paren |-> FALSE,
           between_only_if_separate_line |-> FALSE,
           remove_text_before_colon |-> FALSE,
           colon_only_if_uppercase |-> FALSE,
           remove_if_only_music_symbols |-> FALSE]

\* C9: with every flag off, a line whose only whitespace is single blanks inside
\* it comes back unchanged, character for character.
C9_ShieldingIsExact ==
    (pc = "cleaned" /\ cfg = AllOff /\ Normalized(Line) = Line) => cleaned = Line

-----------------------------------------------------------------------------
(* The standalone-bracket mode (between_only_if_separate_line), from the   *)
(* call of clean_line to a run of main() on a file holding one entry.      *)

StandalonePieces ==
    { <<"[">>, <<"]">>, <<"(">>, <<")">>, <<"a">>, <<" ">>, Note, TagI }

StandaloneConfigs == {c \in SDHConfig : c.between_only_if_separate_line}

\* main(): _read_lines, parse_srt, the mode's filter, format_srt with renumber=True
Main(ls, m, c) ==
    /\ lines' = ls
    /\ mode' = m
    /\ cfg' = c
    /\ renumber' = TRUE
    /\ blocks' = parse_srt(ls)
    /\ result_blocks' = RunMode(m, blocks', c)
    /\ output_lines' = format_srt(result_blocks', TRUE)
    /\ pc' = "done"

\* main() in mode sdh_to_full on the file of one entry whose text line is Line
MainOneEntry(c) ==
    /\ pc = "input"
    /\ Main(<<<<"1">>, Timing, Line>>, "sdh_to_full", c)
    /\ UNCHANGED <<input, cleaned>>

NextStandalone ==
    \/ \E p \in StandalonePieces : TypePiece(p)
    \/ \E c \in StandaloneConfigs : CleanLine(c)
    \/ \E c \in StandaloneConfigs : MainOneEntry(c)

SpecStandalone == InitClean /\ [][NextStandalone]_vars

\* t is one block: an opening bracket, no closing bracket inside, a closing bracket
IsBlock(t, open, close) ==
    /\ Len(t) >= 2
    /\ t[1] = open
    /\ t[Len(t)] = close
    /\ \A i \in 2..(Len(t) - 1) : t[i] # close

\* the trimmed raw line is a single block of a kind the configuration removes
Standalone(l, c) ==
    \/ c.remove_between_square /\ IsBlock(strip(l), "[", "]")
    \/ c.remove_between_paren /\ IsBlock(strip(l), "(", ")")

NoBrackets(c) == [c EXCEPT !.remove_between_square = FALSE, !.remove_between_paren = FALSE]

\* C8 as stated: in this mode clean_line returns None exactly when the trimmed
\* raw line is a single block of a kind the configuration removes.
C8_DropsExactlyStandalone ==
    pc = "cleaned" => (cleaned = None <=> Standalone(Line, cfg))

\* C8 as amended: in this mode a single block of a removed kind is always
\* dropped, whatever it holds; any other line is dropped only by the music
\* rule; the bracket flags change nothing else; and the entry whose only text
\* line is such a block is absent from the output of main().
C8_StandaloneMode ==
    /\ (pc = "cleaned" /\ Standalone(Line, cfg)) => cleaned = None
    /\ (pc = "cleaned" /\ ~Standalone(Line, cfg) /\ cleaned = None)
           => /\ cfg.remove_if_only_music_symbols
              /\ \E i \in 1..Len(Line) : Line[i] \in MUSIC_SYMBOLS
    /\ (pc = "cleaned" /\ ~Standalone(Line, cfg))
           => cleaned = clean_line(Line, NoBrackets(cfg))
    /\ (pc = "done" /\ Standalone(Line, cfg))
           => /\ Len(blocks) = 1
              /\ blocks[1].texts = <<Line>>
              /\ result_blocks = <<>>
              /\ output_lines = <<>>

\* Scenario E has run: the entry with the text line [a] went through main()
C8_Witness ==
    /\ pc = "done"
    /\ Line = <<"[", "a", "]">>
    /\ cfg.remove_between_square
    /\ blocks = OneEntry(Line)
    /\ output_lines = <<>>

-----------------------------------------------------------------------------
(* Entry lists handed to full_to_forced_blocks and to format_srt.          *)

MaxBlocks == 3

AddBlock(index, timing, texts) ==
    /\ pc = "input"
    /\ Len(blocks) < MaxBlocks
    /\ blocks' = Append(blocks, SRTBlock(index, timing, texts))
    /\ UNCHANGED <<input, cfg, cleaned, lines, mode, renumber, result_blocks,
                   output_lines, pc>>

\* a call full_to_forced_blocks(blocks), with the default checker
FullToForced ==
    /\ pc = "input"
    /\ result_blocks' = full_to_forced_blocks(blocks)
    /\ pc' = "forced"
    /\ UNCHANGED <<input, cfg, cleaned, lines, mode, renumber, blocks, output_lines>>

\* a call format_srt(blocks, r)
FormatSrt(r) ==
    /\ pc = "input"
    /\ renumber' = r
    /\ output_lines' = format_srt(blocks, r)
    /\ pc' = "formatted"
    /\ UNCHANGED <<input, cfg, cleaned, lines, mode, blocks, result_blocks>>

An8 == <<"{", "\\", "a", "n", "8", "}">>
CapsCue == <<"A", "B">>
MixedCue == <<"A", "b">>
An8Cue == An8 \o CapsCue
\* <i>HELLO THERE</i>
ItalicCue == TagI \o <<"H", "E", "L", "L", "O", " ", "T", "H", "E", "R", "E">>
                 \o <<"<", "/", "i", ">">>

CueLines ==
    { CapsCue, MixedCue, An8Cue, An8, ItalicCue,
      <<"A">>, <<"A", "1", " ", "B", "!">>, <<"1", "2", "!">>, <<" ">>,
      <<"A", "_", "B">>, <<"U00C1", "B">>, <<"{", "b", "}", "A", "{", "B">>,
      <<"<", "I", ">", "A", "B">> }

PairLines == {CapsCue, MixedCue, An8Cue}

TextLists ==
    {<<>>} \cup {<<l>> : l \in CueLines} \cup {<<l, m>> : l \in PairLines, m \in PairLines}

MaxForcedBlocks == 2

NextForced ==
    \/ \E t \in TextLists :
           Len(blocks) < MaxForcedBlocks /\ AddBlock(str(Len(blocks) + 1), Timing, t)
    \/ FullToForced

SpecForced == InitClean /\ [][NextForced]_vars

FormatIndexes == {<<>>, <<"7">>}
FormatTimings == {<<>>, Timing}
FormatTexts == {<<>>, <<CapsCue>>, <<CapsCue, MixedCue>>}

NextFormat ==
    \/ \E i \in FormatIndexes, t \in FormatTimings, x \in FormatTexts : AddBlock(i, t, x)
    \/ \E r \in BOOLEAN : FormatSrt(r)

SpecFormat == InitClean /\ [][NextFormat]_vars

-----------------------------------------------------------------------------
(* main(): the lines of the input file are read, then the mode runs.       *)

MaxLines == 4

RawLines == { <<>>, <<"1">>, Timing, CapsCue, MixedCue, <<"[", "a", "]">> }

Modes == {"sdh_to_full", "full_to_forced", "sdh_to_forced"}

PresetConfigs == {PRESETS[n] : n \in DOMAIN PRESETS}

\* _read_lines delivers one more line of the file
ReadLine(l) ==
    /\ pc = "input"
    /\ Len(lines) < MaxLines
    /\ lines' = Append(lines, l)
    /\ UNCHANGED <<input, cfg, cleaned, mode, renumber, blocks, result_blocks,
                   output_lines, pc>>

RunMain(m, c) ==
    /\ pc = "input"
    /\ Main(lines, m, c)
    /\ UNCHANGED <<input, cleaned>>

Init == InitClean

Next ==
    \/ \E l \in RawLines : ReadLine(l)
    \/ \E m \in Modes, c \in PresetConfigs : RunMain(m, c)

Spec == Init /\ [][Next]_vars

-----------------------------------------------------------------------------
(* Properties of full_to_forced_blocks, under SpecForced.                  *)

\* a text with its {...} spans deleted, read from the left
RECURSIVE DeleteOverrides(_)
DeleteOverrides(t) ==
    IF t = <<>> THEN <<>>
    ELSE IF Head(t) = "{" /\ \E j \in 2..Len(t) : t[j] = "}"
         THEN DeleteOverrides(SubSeq(t, 1 + CHOOSE j \in 2..Len(t) :
                                  t[j] = "}" /\ \A k \in 2..(j - 1) : t[k] # "}", Len(t)))
         ELSE <<Head(t)>> \o DeleteOverrides(Tail(t))

\* the cue classifier as the claim states it: not empty once trimmed, nothing
\* but capitals, digits, whitespace and symbols, at least two letters
Qualifies(t) ==
    /\ strip(t) # <<>>
    /\ \A i \in 1..Len(t) : isword(t[i]) => (t[i] \in Digits \/ isupper(t[i]))
    /\ Cardinality({i \in 1..Len(t) : isalpha(t[i])}) >= 2

QualifyingEntry(b) ==
    /\ Len(b.texts) >= 1
    /\ \A i \in 1..Len(b.texts) : Qualifies(DeleteOverrides(b.texts[i]))

\* C3: an entry is in the output of full_to_forced_blocks iff it has a text
\* line and every text line, its overrides deleted, satisfies the classifier;
\* the retained entries are input entries, unmodified, each once.
C3_ForcedEntries ==
    pc = "forced" =>
        /\ \A i \in 1..Len(blocks) :
               QualifyingEntry(blocks[i]) <=>
                   \E j \in 1..Len(result_blocks) : result_blocks[j] = blocks[i]
        /\ \A j \in 1..Len(result_blocks) :
               \E i \in 1..Len(blocks) : result_blocks[j] = blocks[i]
        /\ Len(result_blocks) =
               Cardinality({i \in 1..Len(blocks) : QualifyingEntry(blocks[i])})

\* an entry with an override line is retained as it is, beside one dropped for
\* a single mixed-case line
C3_Witness ==
    /\ pc = "forced"
    /\ \E i \in 1..Len(blocks) : blocks[i].texts = <<CapsCue, MixedCue>>
    /\ Len(result_blocks) = 1
    /\ result_blocks[1].texts = <<An8Cue>>

\* C6: an entry whose only text line is <i>HELLO THERE</i> is retained.
C6_ItalicCapsRetained ==
    pc = "forced" =>
        \A i \in 1..Len(blocks) :
            blocks[i].texts = <<ItalicCue>> =>
                \E j \in 1..Len(result_blocks) : result_blocks[j] = blocks[i]

-----------------------------------------------------------------------------
(* Properties of format_srt, under SpecFormat.                             *)

HasTexts(b) == b.texts # <<>>

\* the entries with at least one text line, in their order
Kept == SelectSeq(blocks, HasTexts)

\* where the group of the j-th kept entry starts in the output
RECURSIVE Offset(_)
Offset(j) == IF j = 1 THEN 1 ELSE Offset(j - 1) + Len(Kept[j - 1].texts) + 3

RECURSIVE DecimalValue(_)
DecimalValue(d) ==
    IF d = <<>> THEN 0
    ELSE 10 * DecimalValue(SubSeq(d, 1, Len(d) - 1))
         + (CHOOSE v \in 0..9 : DigitSeq[v + 1] = d[Len(d)])

\* d is the decimal numeral of n
IsNumeral(d, n) ==
    /\ d # <<>>
    /\ \A i \in 1..Len(d) : d[i] \in Digits
    /\ Len(d) > 1 => d[1] # "0"
    /\ DecimalValue(d) = n

\* C4: format_srt emits one group per entry with a text line and none for the
\* others; the j-th group starts with the numeral of j when renumbering (or when
\* the entry has no index), with the entry's own index otherwise; then the timing,
\* the text lines and a blank line.
C4_FormatGroups ==
    pc = "formatted" =>
        /\ Len(output_lines) = Offset(Len(Kept) + 1) - 1
        /\ \A j \in 1..Len(Kept) :
               LET o == Offset(j)
                   n == Len(Kept[j].texts)
               IN  /\ IF renumber \/ Kept[j].index = <<>>
                      THEN IsNumeral(output_lines[o], j)
                      ELSE output_lines[o] = Kept[j].index
                   /\ output_lines[o + 1] = Kept[j].timing
                   /\ SubSeq(output_lines, o + 2, o + 1 + n) = Kept[j].texts
                   /\ output_lines[o + 2 + n] = <<>>

\* renumbering with an entry without text between two entries with text
C4_Witness ==
    /\ pc = "formatted"
    /\ renumber
    /\ Len(blocks) = 3
    /\ blocks[1].texts # <<>>
    /\ blocks[2].texts = <<>>
    /\ blocks[3].texts # <<>>
    /\ output_lines[1] = <<"1">>
    /\ output_lines[Offset(2)] = <<"2">>

-----------------------------------------------------------------------------
(* Properties of main(), under Spec.                                       *)

\* C10: the output of main() parses back into the entries the mode returned:
\* as many, with the same timing and text lines, numbered from 1.
C10_OutputParsesBack ==
    pc = "done" =>
        LET back == parse_srt(output_lines)
        IN  /\ Len(back) = Len(result_blocks)
            /\ \A i \in 1..Len(result_blocks) :
                   /\ back[i].timing = result_blocks[i].timing
                   /\ back[i].texts = result_blocks[i].texts
                   /\ IsNumeral(back[i].index, i)

====
